---- MODULE Spec2Model ----
(***************************************************************************)
(* Reconciliation of the BackdropBlur and Portal views (xilem,             *)
(* xilem_masonry) against the retained BackdropBlur widget (masonry).      *)
(*                                                                         *)
(* One view tree is built, rebuilt and torn down.  Its shape is one of     *)
(*     "blur"    backdrop_blur(leaf)                                       *)
(*     "portal"  portal(leaf)                                              *)
(*     "nested"  portal(backdrop_blur(leaf))                               *)
(* and the Portal view is either the xilem or the xilem_masonry one.       *)
(* Every action is one whole traversal or one whole pass; `log` holds, in   *)
(* order, the calls it made (setters, context requests, child steps).      *)
(* Between traversals the registration, layout and paint passes consume    *)
(* the invalidation the handles recorded, and messages are routed.         *)
(***************************************************************************)
EXTENDS Integers, Sequences, FiniteSets, TLC

VARIABLES phase, fault, op, shape, variant, view, prev, view_state,
          portal, blur, leaf, arena, pending, removed, nextId, log,
          dirty, laid, route, msg

vars == <<phase, fault, op, shape, variant, view, prev, view_state,
          portal, blur, leaf, arena, pending, removed, nextId, log,
          dirty, laid, route, msg>>

\* ------------------------------------------------------------------ bounds

\* How many times set_child is taken in one run.
MaxReplace == 2

\* ------------------------------------------------------------- value domains

\* An f64 / f32 value: a number, or NaN.
Num(n) == <<"num", n>>
NaN == <<"nan", 0>>

\* Rust's `!=` on floats (IEEE 754): NaN is unequal to everything, itself included.
f64_ne(a, b) == a[1] = "nan" \/ b[1] = "nan" \/ a # b

\* A Color is its four components; from_rgba8 gives them as 8-bit channels.
from_rgba8(r, g, b, a) == <<Num(r), Num(g), Num(b), Num(a)>>

\* `!=` on Color: derived PartialEq over the float components.
color_ne(a, b) == \E i \in 1..4 : f64_ne(a[i], b[i])

DefaultBlurRadius == Num(18)
DefaultTint == from_rgba8(255, 255, 255, 36)
OtherTint == from_rgba8(0, 0, 0, 36)
NaNTint == <<NaN, Num(0), Num(0), Num(36)>>

Radii == {DefaultBlurRadius, Num(24), NaN}
Tints == {DefaultTint, OtherTint, NaNTint}

\* The widget kind the leaf view builds, and the kinds set_child may be handed.
ViewKind == "label"
Kinds == {"label", "button"}

\* The sizes the window hands the layout pass.
Sizes == {<<100, 50>>, <<200, 80>>}

Shapes == {"blur", "portal", "nested"}
Variants == {"xilem", "xilem_masonry"}
HasBlur(s) == s \in {"blur", "nested"}
HasPortal(s) == s \in {"portal", "nested"}

\* ------------------------------------------------------------------- views

\* backdrop_blur(child): the view with its defaults.
backdrop_blur ==
  [blur_radius |-> DefaultBlurRadius, tint |-> DefaultTint, clip_content |-> TRUE]

\* portal(child): the view with its defaults.
portal_view ==
  [constrain_horizontal |-> FALSE, constrain_vertical |-> FALSE,
   must_fill |-> FALSE, right_to_left |-> FALSE]

\* Every BackdropBlur view the builder methods can produce.
BlurViews ==
  [blur_radius : Radii, tint : Tints, clip_content : BOOLEAN]

\* Every Portal view the builder methods can produce: the xilem_masonry view has
\* no constrain_horizontal / constrain_vertical builders, so they stay false.
PortalViews(var) ==
  IF var = "xilem"
  THEN [constrain_horizontal : BOOLEAN, constrain_vertical : BOOLEAN,
        must_fill : BOOLEAN, right_to_left : BOOLEAN]
  ELSE [constrain_horizontal : {FALSE}, constrain_vertical : {FALSE},
        must_fill : BOOLEAN, right_to_left : BOOLEAN]

\* The view trees of a shape.  Where a container is absent its slot keeps the
\* default.  In the nested shape the portal varies in must_fill and right_to_left
\* and the inner blur in its radius; the two-level shapes vary every property.
Views(s, var) ==
  CASE s = "blur" -> [p : {portal_view}, b : BlurViews]
    [] s = "portal" -> [p : PortalViews(var), b : {backdrop_blur}]
    [] OTHER -> [p : PortalViews("xilem_masonry"),
                 b : {[backdrop_blur EXCEPT !.blur_radius = r] : r \in Radii}]

\* ------------------------------------------------------ the traversal's world

\* No message in flight: nothing dispatched, nothing seen, no result.
NoMsg ==
  [sent |-> <<>>, path |-> <<>>, seen |-> <<>>, result |-> "none",
   action |-> 0, mutated |-> FALSE]

\* What one traversal reads and writes: the widgets, the arena of registered
\* widgets, the allocator, the view state, the invalidation state of each
\* container, what the last layout pass left, the path the leaf registered, the
\* message in flight, the calls made so far, and the fault that ended it ("none"
\* while it runs).
World ==
  [portal |-> portal, blur |-> blur, leaf |-> leaf, arena |-> arena,
   pending |-> pending, removed |-> removed, nextId |-> nextId,
   view_state |-> view_state, dirty |-> dirty, laid |-> laid, route |-> route,
   msg |-> NoMsg, id_path |-> <<>>, log |-> <<>>, fault |-> "none"]

\* A call of the traversal: <<element, operation, widget id, view state>>.
Log(w, el, what, id, vs) == [w EXCEPT !.log = Append(@, <<el, what, id, vs>>)]

\* No widget / no pod.
NoPod == [id |-> 0, kind |-> "none"]
NoBlur ==
  [id |-> 0, child |-> NoPod, blur_radius |-> DefaultBlurRadius,
   tint |-> DefaultTint, clip_content |-> TRUE]
NoPortal ==
  [id |-> 0, child |-> NoPod, constrain_horizontal |-> FALSE,
   constrain_vertical |-> FALSE, must_fill |-> FALSE, rtl |-> FALSE]

\* -------------------------------------------------- MutateCtx (Mutation Handle)

\* The invalidation states of an element, in escalation order.
Clean == 0
RenderDirty == 1
LayoutDirty == 2
StructureDirty == 3

\* A request of class c on an element in state d: the state only escalates.
Escalate(d, c) == IF c > d THEN c ELSE d

\* request_render that overwrites the element's state with render-dirty.
request_render_reset(w, el) ==
  Log([w EXCEPT !.dirty[el] = RenderDirty], el, "request_render", 0, RenderDirty)

\* ctx.request_render() on element el; the call is logged with the state it leaves.
request_render(w, el) ==
  LET d == Escalate(w.dirty[el], RenderDirty)
  IN Log([w EXCEPT !.dirty[el] = d], el, "request_render", 0, d)

\* ctx.request_layout() on element el.
request_layout(w, el) ==
  LET d == Escalate(w.dirty[el], LayoutDirty)
  IN Log([w EXCEPT !.dirty[el] = d], el, "request_layout", 0, d)

\* ctx.children_changed() on element el: the structure needs re-registration.
children_changed(w, el) ==
  LET d == Escalate(w.dirty[el], StructureDirty)
  IN [Log([w EXCEPT !.dirty[el] = d], el, "children_changed", 0, d)
        EXCEPT !.pending = TRUE]

\* ctx.remove_child(pod) on element el: the pod leaves the arena for good.
remove_child(w, el, pod) ==
  [Log(w, el, "remove_child", pod.id, 0) EXCEPT
     !.arena = @ \ {pod.id}, !.removed = @ \cup {pod.id}]

\* The invalidation classes, in escalation order.
Level(what) ==
  CASE what = "request_render" -> 1
    [] what = "request_layout" -> 2
    [] what = "children_changed" -> 3
    [] OTHER -> 0

RECURSIVE MaxLevel(_, _, _)
MaxLevel(l, el, i) ==
  IF i > Len(l) THEN 0
  ELSE LET rest == MaxLevel(l, el, i + 1)
           here == IF l[i][1] = el THEN Level(l[i][2]) ELSE 0
       IN IF here > rest THEN here ELSE rest

\* The signals the handle of element el emits for the calls in l: the requests of
\* one scope are coalesced into one signal of the highest class requested.
Signals(l, el) ==
  LET m == MaxLevel(l, el, 1)
  IN CASE m = 0 -> <<>>
       [] m = 1 -> <<"render">>
       [] m = 2 -> <<"layout">>
       [] OTHER -> <<"structure">>

\* How many times element el made call `what` in l.
Count(l, el, what) ==
  Cardinality({i \in 1..Len(l) : l[i][1] = el /\ l[i][2] = what})

\* ------------------------------------------------ masonry widgets::BackdropBlur

\* BackdropBlur::new(child)
BackdropBlur_new(child) ==
  [id |-> 0, child |-> child, blur_radius |-> Num(18),
   tint |-> from_rgba8(255, 255, 255, 36), clip_content |-> TRUE]

\* The builders.
blur_radius(self, r) == [self EXCEPT !.blur_radius = r]
tint(self, t) == [self EXCEPT !.tint = t]
clip_content(self, c) == [self EXCEPT !.clip_content = c]

\* set_child that removes the old child but leaves it in the child slot.
set_child_keep(w, child) ==
  LET w0 == Log(w, "blur", "set_child", child.id, 0)
      w1 == Log(w0, "blur", "replace", child.id, 0)
      w2 == remove_child(w1, "blur", w0.blur.child)
  IN children_changed(w2, "blur")

\* set_child that swaps the slot and never removes the old child.
set_child_leak(w, child) ==
  LET w0 == Log(w, "blur", "set_child", child.id, 0)
      w1 == Log([w0 EXCEPT !.blur.child = child], "blur", "replace", child.id, 0)
  IN children_changed(w1, "blur")

\* set_child that raises children_changed before it removes the old child.
set_child_signal_first(w, child) ==
  LET w0 == Log(w, "blur", "set_child", child.id, 0)
      old == w0.blur.child
      w1 == Log([w0 EXCEPT !.blur.child = child], "blur", "replace", child.id, 0)
      w2 == children_changed(w1, "blur")
  IN remove_child(w2, "blur", old)

\* BackdropBlur::set_child(this, child)
set_child(w, child) ==
  LET w0 == Log(w, "blur", "set_child", child.id, 0)
      old == w0.blur.child
      w1 == Log([w0 EXCEPT !.blur.child = child], "blur", "replace", child.id, 0)
      w2 == remove_child(w1, "blur", old)
  IN children_changed(w2, "blur")

\* BackdropBlur::set_blur_radius(this, blur_radius)
set_blur_radius(w, r) ==
  LET w0 == Log(w, "blur", "set_blur_radius", 0, 0)
  IN IF f64_ne(w0.blur.blur_radius, r)
     THEN request_render([w0 EXCEPT !.blur.blur_radius = r], "blur")
     ELSE w0

\* set_tint that requests the render but keeps the old tint.
set_tint_stale(w, t) ==
  LET w0 == Log(w, "blur", "set_tint", 0, 0)
  IN IF color_ne(w0.blur.tint, t) THEN request_render(w0, "blur") ELSE w0

\* set_tint that asks for a layout pass instead of a repaint.
set_tint_layout(w, t) ==
  LET w0 == Log(w, "blur", "set_tint", 0, 0)
  IN IF color_ne(w0.blur.tint, t)
     THEN request_layout([w0 EXCEPT !.blur.tint = t], "blur")
     ELSE w0

\* BackdropBlur::set_tint(this, tint)
set_tint(w, t) ==
  LET w0 == Log(w, "blur", "set_tint", 0, 0)
  IN IF color_ne(w0.blur.tint, t)
     THEN request_render([w0 EXCEPT !.blur.tint = t], "blur")
     ELSE w0

\* set_clip_content that asks for a repaint only.
set_clip_content_render(w, c) ==
  LET w0 == Log(w, "blur", "set_clip_content", 0, 0)
  IN IF w0.blur.clip_content # c
     THEN request_render([w0 EXCEPT !.blur.clip_content = c], "blur")
     ELSE w0

\* BackdropBlur::set_clip_content(this, clip_content)
set_clip_content(w, c) ==
  LET w0 == Log(w, "blur", "set_clip_content", 0, 0)
  IN IF w0.blur.clip_content # c
     THEN request_layout([w0 EXCEPT !.blur.clip_content = c], "blur")
     ELSE w0

\* BackdropBlur::child_mut(this): the handle of the child pod.
child_mut(w) == w.blur.child

\* What a layout pass leaves on the BackdropBlur widget; before the first pass
\* nothing is placed and no clip path is set.
NoLayout ==
  [size |-> <<0, 0>>, child_size |-> <<0, 0>>, child_origin |-> <<0, 0>>,
   baseline_offset |-> 0, clip_path |-> <<"none">>]

\* ctx.child_baseline_offset(child): the baseline the child's own layout reports.
child_baseline_offset(child) == IF child.kind = "label" THEN 12 ELSE 0

\* Size::to_rect(): the rectangle at the origin with the size's extent.
to_rect(size) == <<"rect", 0, 0, size[1], size[2]>>

\* layout that sets the clip path whatever clip_content says.
layout_always_clip(w, size) ==
  [w EXCEPT !.laid =
     [size |-> size, child_size |-> size, child_origin |-> <<0, 0>>,
      baseline_offset |-> child_baseline_offset(w.blur.child),
      clip_path |-> to_rect(size)]]

\* <BackdropBlur as Widget>::layout(ctx, props, size)
layout(w, size) ==
  [w EXCEPT !.laid =
     [size |-> size, child_size |-> size, child_origin |-> <<0, 0>>,
      baseline_offset |-> child_baseline_offset(w.blur.child),
      clip_path |-> IF w.blur.clip_content THEN to_rect(size) ELSE <<"none">>]]

\* BackdropBlur::register_children: registers the one child.
register_children(w) == [w EXCEPT !.arena = @ \cup {w.blur.child.id}]

\* BackdropBlur::children_ids
children_ids(b) == <<b.child.id>>

\* ---------------------------------------------------- masonry widgets::Portal

\* Portal::new(child)
Portal_new(child) ==
  [id |-> 0, child |-> child, constrain_horizontal |-> FALSE,
   constrain_vertical |-> FALSE, must_fill |-> FALSE, rtl |-> FALSE]

\* The builders.
constrain_horizontal(self, c) == [self EXCEPT !.constrain_horizontal = c]
constrain_vertical(self, c) == [self EXCEPT !.constrain_vertical = c]
content_must_fill(self, m) == [self EXCEPT !.must_fill = m]
with_rtl(self, r) == [self EXCEPT !.rtl = r]

\* Portal::set_constrain_horizontal(this, constrain)
set_constrain_horizontal(w, c) ==
  LET w0 == Log(w, "portal", "set_constrain_horizontal", 0, 0)
  IN IF w0.portal.constrain_horizontal # c
     THEN request_layout([w0 EXCEPT !.portal.constrain_horizontal = c], "portal")
     ELSE w0

\* Portal::set_constrain_vertical(this, constrain)
set_constrain_vertical(w, c) ==
  LET w0 == Log(w, "portal", "set_constrain_vertical", 0, 0)
  IN IF w0.portal.constrain_vertical # c
     THEN request_layout([w0 EXCEPT !.portal.constrain_vertical = c], "portal")
     ELSE w0

\* Portal::set_content_must_fill(this, must_fill)
set_content_must_fill(w, m) ==
  LET w0 == Log(w, "portal", "set_content_must_fill", 0, 0)
  IN IF w0.portal.must_fill # m
     THEN request_layout([w0 EXCEPT !.portal.must_fill = m], "portal")
     ELSE w0

\* Portal::child_mut(this): the typed handle of the child pod.
Portal_child_mut(w) == w.portal.child

\* ------------------------------------------------------ the leaf (Child) view

\* ctx.create_pod / WidgetId::next(): a fresh identifier, never reused.
create_pod(w) == [w EXCEPT !.nextId = @ + 1]

\* Child::build: one new element of the view's kind and the child's view state;
\* the leaf registers the path that addresses it: the context's path, then its id.
LeafBuild(w) ==
  LET id == w.nextId
  IN Log([create_pod(w) EXCEPT !.leaf = [id |-> id, kind |-> ViewKind],
                               !.view_state = id,
                               !.route = w.id_path \o <<id>>],
         "leaf", "build", id, id)

\* Child::rebuild(prev.child, view_state, ctx, element, app_state)
LeafRebuild(w, element) == Log(w, "leaf", "rebuild", element.id, w.view_state)

\* Child::teardown(view_state, ctx, element)
LeafTeardown(w, element) == Log(w, "leaf", "teardown", element.id, w.view_state)

\* What the leaf answers to the path it is handed: Stale unless the head is its
\* element's id; Handled, with its action, when the path ends there; Unhandled
\* when nothing is addressed.  Only Handled runs the application's callback.
LeafAnswer(path, id) ==
  LET r == CASE path = <<>> -> "Unhandled"
             [] Head(path) # id -> "Stale"
             [] Tail(path) = <<>> -> "Handled"
             [] OTHER -> "Stale"
  IN [result |-> r, action |-> IF r = "Handled" THEN id ELSE 0,
      mutated |-> r = "Handled"]

\* Child::message(view_state, message, element, app_state)
LeafMessage(w, element) ==
  LET a == LeafAnswer(w.msg.path, element.id)
  IN Log([w EXCEPT !.msg.seen = w.msg.path, !.msg.result = a.result,
                   !.msg.action = a.action, !.msg.mutated = a.mutated],
         "leaf", "message", element.id, w.view_state)

\* WidgetMut<dyn Widget>::downcast::<Child::Widget>() succeeds on the view's kind.
downcast(element) == element.kind = ViewKind

\* ------------------------------------------- xilem_masonry view::BackdropBlur

\* build that returns a view state of its own (its widget id), not the child's.
BackdropBlurBuildOwnState(self, w) ==
  LET w1 == LeafBuild(w)
      widget == clip_content(
                  tint(
                    blur_radius(BackdropBlur_new(w1.leaf), self.blur_radius),
                    self.tint),
                  self.clip_content)
      id == w1.nextId
  IN Log([create_pod(w1) EXCEPT !.blur = [widget EXCEPT !.id = id],
                                !.view_state = id],
         "blur", "build", id, id)

\* build that leaves the new widget with the defaults of BackdropBlur::new.
BackdropBlurBuildDefaults(self, w) ==
  LET w1 == LeafBuild(w)
      widget == BackdropBlur_new(w1.leaf)
      id == w1.nextId
  IN Log([create_pod(w1) EXCEPT !.blur = [widget EXCEPT !.id = id]],
         "blur", "build", id, w1.view_state)

\* <BackdropBlur as View>::build
BackdropBlurBuild(self, w) ==
  LET w1 == LeafBuild(w)
      widget == clip_content(
                  tint(
                    blur_radius(BackdropBlur_new(w1.leaf), self.blur_radius),
                    self.tint),
                  self.clip_content)
      id == w1.nextId
  IN Log([create_pod(w1) EXCEPT !.blur = [widget EXCEPT !.id = id]],
         "blur", "build", id, w1.view_state)

\* rebuild that rebuilds the child before it applies its own properties.
BackdropBlurRebuildChildFirst(self, prevv, w) ==
  LET w0 == Log(w, "blur", "rebuild", w.blur.id, w.view_state)
      child_element == child_mut(w0)
      w1 == LeafRebuild(w0, child_element)
      w2 == IF f64_ne(self.blur_radius, prevv.blur_radius)
            THEN set_blur_radius(w1, self.blur_radius) ELSE w1
      w3 == IF color_ne(self.tint, prevv.tint)
            THEN set_tint(w2, self.tint) ELSE w2
      w4 == IF self.clip_content # prevv.clip_content
            THEN set_clip_content(w3, self.clip_content) ELSE w3
  IN IF downcast(child_element)
     THEN Log(w4, "blur", "rebuilt", w.blur.id, 0)
     ELSE [w0 EXCEPT !.fault = "downcast"]

\* <BackdropBlur as View>::rebuild
BackdropBlurRebuild(self, prevv, w) ==
  LET w0 == Log(w, "blur", "rebuild", w.blur.id, w.view_state)
      w1 == IF f64_ne(self.blur_radius, prevv.blur_radius)
            THEN set_blur_radius(w0, self.blur_radius) ELSE w0
      w2 == IF color_ne(self.tint, prevv.tint)
            THEN set_tint(w1, self.tint) ELSE w1
      w3 == IF self.clip_content # prevv.clip_content
            THEN set_clip_content(w2, self.clip_content) ELSE w2
      child_element == child_mut(w3)
  IN IF downcast(child_element)
     THEN Log(LeafRebuild(w3, child_element), "blur", "rebuilt", w.blur.id, 0)
     ELSE [w3 EXCEPT !.fault = "downcast"]

\* teardown that forgets the child.
BackdropBlurTeardownNoChild(w) ==
  LET w0 == Log(w, "blur", "teardown", w.blur.id, w.view_state)
  IN Log(w0, "blur", "torn", w.blur.id, 0)

\* <BackdropBlur as View>::teardown
BackdropBlurTeardown(w) ==
  LET w0 == Log(w, "blur", "teardown", w.blur.id, w.view_state)
      child_element == child_mut(w0)
  IN IF downcast(child_element)
     THEN Log(LeafTeardown(w0, child_element), "blur", "torn", w.blur.id, 0)
     ELSE [w0 EXCEPT !.fault = "downcast"]

\* message that answers Stale itself when the head is not its element's id, and
\* strips the head before it recurses.
BackdropBlurMessageChecked(w) ==
  LET w0 == Log(w, "blur", "message", w.blur.id, w.view_state)
      child_element == child_mut(w0)
  IN IF w0.msg.path = <<>> \/ Head(w0.msg.path) # w0.blur.id
     THEN Log([w0 EXCEPT !.msg.result = "Stale"], "blur", "messaged", w.blur.id, 0)
     ELSE IF downcast(child_element)
          THEN Log(LeafMessage([w0 EXCEPT !.msg.path = Tail(@)], child_element),
                   "blur", "messaged", w.blur.id, 0)
          ELSE [w0 EXCEPT !.fault = "downcast"]

\* message that hands the untyped child handle to the child, whatever its kind.
BackdropBlurMessageUnchecked(w) ==
  LET w0 == Log(w, "blur", "message", w.blur.id, w.view_state)
      child_element == child_mut(w0)
  IN Log(LeafMessage(w0, child_element), "blur", "messaged", w.blur.id, 0)

\* message that hands the child's Stale on as Unhandled.
BackdropBlurMessageSwallow(w) ==
  LET w0 == Log(w, "blur", "message", w.blur.id, w.view_state)
      child_element == child_mut(w0)
      w1 == LeafMessage(w0, child_element)
  IN IF downcast(child_element)
     THEN Log([w1 EXCEPT !.msg.result =
                 IF @ = "Stale" THEN "Unhandled" ELSE @],
              "blur", "messaged", w.blur.id, 0)
     ELSE [w0 EXCEPT !.fault = "downcast"]

\* <BackdropBlur as View>::message
BackdropBlurMessage(w) ==
  LET w0 == Log(w, "blur", "message", w.blur.id, w.view_state)
      child_element == child_mut(w0)
  IN IF downcast(child_element)
     THEN Log(LeafMessage(w0, child_element), "blur", "messaged", w.blur.id, 0)
     ELSE [w0 EXCEPT !.fault = "downcast"]

\* ------------------------------------------------- the Portal view's child

\* self.child.build: the inner BackdropBlur view, or the leaf.
ChildBuild(v, s, w) ==
  IF s = "nested" THEN BackdropBlurBuild(v.b, w) ELSE LeafBuild(w)

\* The pod self.child.build returned.
ChildPod(s, w) ==
  IF s = "nested" THEN [id |-> w.blur.id, kind |-> "blur"] ELSE w.leaf

\* self.child.rebuild(&prev.child, view_state, ctx, child_element, app_state)
ChildRebuild(v, pv, s, w, element) ==
  IF s = "nested" THEN BackdropBlurRebuild(v.b, pv.b, w) ELSE LeafRebuild(w, element)

\* self.child.teardown(view_state, ctx, child_element)
ChildTeardown(s, w, element) ==
  IF s = "nested" THEN BackdropBlurTeardown(w) ELSE LeafTeardown(w, element)

\* self.child.message(view_state, message, child_element, app_state)
ChildMessage(s, w, element) ==
  IF s = "nested" THEN BackdropBlurMessage(w) ELSE LeafMessage(w, element)

\* ---------------------------------------------------- xilem view::Portal

\* <Portal as View>::build (xilem)
XilemPortalBuild(v, s, w) ==
  LET w1 == ChildBuild(v, s, w)
      widget == with_rtl(
                  content_must_fill(
                    constrain_vertical(
                      constrain_horizontal(Portal_new(ChildPod(s, w1)),
                                           v.p.constrain_horizontal),
                      v.p.constrain_vertical),
                    v.p.must_fill),
                  v.p.right_to_left)
      id == w1.nextId
  IN Log([create_pod(w1) EXCEPT !.portal = [widget EXCEPT !.id = id]],
         "portal", "build", id, w1.view_state)

\* <Portal as View>::rebuild (xilem)
XilemPortalRebuild(v, pv, s, w) ==
  LET w0 == Log(w, "portal", "rebuild", w.portal.id, w.view_state)
      w1 == IF v.p.constrain_horizontal # pv.p.constrain_horizontal
            THEN set_constrain_horizontal(w0, v.p.constrain_horizontal) ELSE w0
      w2 == IF v.p.constrain_vertical # pv.p.constrain_vertical
            THEN set_constrain_vertical(w1, v.p.constrain_vertical) ELSE w1
      w3 == IF v.p.must_fill # pv.p.must_fill
            THEN set_content_must_fill(w2, v.p.must_fill) ELSE w2
      w4 == ChildRebuild(v, pv, s, w3, Portal_child_mut(w3))
  IN IF w4.fault = "none" THEN Log(w4, "portal", "rebuilt", w.portal.id, 0) ELSE w4

\* <Portal as View>::teardown (xilem)
XilemPortalTeardown(s, w) ==
  LET w0 == Log(w, "portal", "teardown", w.portal.id, w.view_state)
      w1 == ChildTeardown(s, w0, Portal_child_mut(w0))
  IN IF w1.fault = "none" THEN Log(w1, "portal", "torn", w.portal.id, 0) ELSE w1

\* <Portal as View>::message (xilem)
XilemPortalMessage(s, w) ==
  LET w0 == Log(w, "portal", "message", w.portal.id, w.view_state)
      w1 == ChildMessage(s, w0, Portal_child_mut(w0))
  IN IF w1.fault = "none" THEN Log(w1, "portal", "messaged", w.portal.id, 0) ELSE w1

\* ---------------------------------------------- xilem_masonry view::Portal

\* <Portal as View>::build (xilem_masonry)
PortalBuild(v, s, w) ==
  LET w1 == ChildBuild(v, s, w)
      widget == with_rtl(
                  content_must_fill(Portal_new(ChildPod(s, w1)), v.p.must_fill),
                  v.p.right_to_left)
      id == w1.nextId
  IN Log([create_pod(w1) EXCEPT !.portal = [widget EXCEPT !.id = id]],
         "portal", "build", id, w1.view_state)

\* <Portal as View>::rebuild (xilem_masonry)
PortalRebuild(v, pv, s, w) ==
  LET w0 == Log(w, "portal", "rebuild", w.portal.id, w.view_state)
      w1 == IF v.p.constrain_horizontal # pv.p.constrain_horizontal
            THEN set_constrain_horizontal(w0, v.p.constrain_horizontal) ELSE w0
      w2 == IF v.p.constrain_vertical # pv.p.constrain_vertical
            THEN set_constrain_vertical(w1, v.p.constrain_vertical) ELSE w1
      w3 == IF v.p.must_fill # pv.p.must_fill
            THEN set_content_must_fill(w2, v.p.must_fill) ELSE w2
      w4 == ChildRebuild(v, pv, s, w3, Portal_child_mut(w3))
  IN IF w4.fault = "none" THEN Log(w4, "portal", "rebuilt", w.portal.id, 0) ELSE w4

\* <Portal as View>::teardown (xilem_masonry)
PortalTeardown(s, w) ==
  LET w0 == Log(w, "portal", "teardown", w.portal.id, w.view_state)
      w1 == ChildTeardown(s, w0, Portal_child_mut(w0))
  IN IF w1.fault = "none" THEN Log(w1, "portal", "torn", w.portal.id, 0) ELSE w1

\* <Portal as View>::message (xilem_masonry)
PortalMessage(s, w) ==
  LET w0 == Log(w, "portal", "message", w.portal.id, w.view_state)
      w1 == ChildMessage(s, w0, Portal_child_mut(w0))
  IN IF w1.fault = "none" THEN Log(w1, "portal", "messaged", w.portal.id, 0) ELSE w1

\* ------------------------------------------------------------ the root view

\* build of the root view of shape s.
RootBuild(v, s, var, w) ==
  CASE s = "blur" -> BackdropBlurBuild(v.b, w)
    [] var = "xilem" -> XilemPortalBuild(v, s, w)
    [] OTHER -> PortalBuild(v, s, w)

\* rebuild of the root view of shape s.
RootRebuild(v, pv, s, var, w) ==
  CASE s = "blur" -> BackdropBlurRebuild(v.b, pv.b, w)
    [] var = "xilem" -> XilemPortalRebuild(v, pv, s, w)
    [] OTHER -> PortalRebuild(v, pv, s, w)

\* teardown of the root view of shape s.
RootTeardown(s, var, w) ==
  CASE s = "blur" -> BackdropBlurTeardown(w)
    [] var = "xilem" -> XilemPortalTeardown(s, w)
    [] OTHER -> PortalTeardown(s, w)

\* message of the root view of shape s.
RootMessage(s, var, w) ==
  CASE s = "blur" -> BackdropBlurMessage(w)
    [] var = "xilem" -> XilemPortalMessage(s, w)
    [] OTHER -> PortalMessage(s, w)

\* ----------------------------------------------------------------- actions

\* The variables a traversal leaves behind.
Commit(w) ==
  /\ portal' = w.portal
  /\ blur' = w.blur
  /\ leaf' = w.leaf
  /\ arena' = w.arena
  /\ pending' = w.pending
  /\ removed' = w.removed
  /\ nextId' = w.nextId
  /\ view_state' = w.view_state
  /\ log' = w.log
  /\ fault' = w.fault
  /\ dirty' = w.dirty
  /\ laid' = w.laid
  /\ route' = w.route
  /\ msg' = w.msg

Init ==
  /\ phase = "init"
  /\ fault = "none"
  /\ op = "none"
  /\ shape \in Shapes
  /\ variant \in Variants
  /\ view = [p |-> portal_view, b |-> backdrop_blur]
  /\ prev = [p |-> portal_view, b |-> backdrop_blur]
  /\ view_state = 0
  /\ portal = NoPortal
  /\ blur = NoBlur
  /\ leaf = NoPod
  /\ arena = {}
  /\ pending = FALSE
  /\ removed = {}
  /\ nextId = 1
  /\ log = <<>>
  /\ dirty = [blur |-> Clean, portal |-> Clean]
  /\ laid = NoLayout
  /\ route = <<>>
  /\ msg = NoMsg

\* The driver builds the root view: the new widgets await registration.
Build(v) ==
  /\ phase = "init"
  /\ LET w == RootBuild(v, shape, variant, World)
     IN Commit([w EXCEPT !.pending = TRUE])
  /\ phase' = "built"
  /\ op' = "build"
  /\ view' = v
  /\ prev' = v
  /\ UNCHANGED <<shape, variant>>

\* The container elements of a shape, root first.
Containers(s) ==
  CASE s = "blur" -> <<"blur">>
    [] s = "portal" -> <<"portal">>
    [] OTHER -> <<"portal", "blur">>

\* The same as a set.
Elements(s) == {Containers(s)[i] : i \in 1..Len(Containers(s))}

\* The widget of a container element.
WidgetId(el) == IF el = "blur" THEN blur.id ELSE portal.id

\* Every pass (registration, layout, paint) has consumed what was requested.
PassesDone == ~pending /\ \A el \in Elements(shape) : dirty[el] = Clean

\* The tree manager's registration pass: every live widget is in the arena.  It
\* consumes the structural invalidation; a container registered for the first
\* time, or whose children changed, is left awaiting layout.
RegisterChildren ==
  /\ phase \in {"built", "live"}
  /\ pending
  /\ fault = "none"
  /\ LET w0 == IF HasBlur(shape)
               THEN Log(register_children(World), "blur", "register_children",
                        blur.child.id, 0)
               ELSE World
         ids == (IF HasBlur(shape) THEN {blur.id} ELSE {})
                  \cup (IF HasPortal(shape) THEN {portal.id, portal.child.id} ELSE {})
         Registered(el) ==
           IF el \in Elements(shape)
              /\ (WidgetId(el) \notin arena \/ dirty[el] = StructureDirty)
           THEN LayoutDirty ELSE dirty[el]
         d == [dirty EXCEPT !.blur = Registered("blur"),
                            !.portal = Registered("portal")]
     IN Commit([w0 EXCEPT !.arena = @ \cup ids, !.pending = FALSE, !.dirty = d])
  /\ phase' = "live"
  /\ op' = "register_children"
  /\ UNCHANGED <<shape, variant, view, prev>>

\* The layout pass, run with the size the window gives the tree: it lays out the
\* BackdropBlur widget and consumes the layout invalidation.  Once a pass or a
\* message follows a rebuild the driver holds the current view only (prev = view).
Layout(size) ==
  /\ phase = "live"
  /\ ~pending
  /\ fault = "none"
  /\ \E el \in Elements(shape) : dirty[el] = LayoutDirty
  /\ LET w0 == IF HasBlur(shape)
               THEN Log(layout(World, size), "blur", "layout", blur.id, 0)
               ELSE World
         LaidOut(el) == IF dirty[el] = LayoutDirty THEN RenderDirty ELSE dirty[el]
         d == [dirty EXCEPT !.blur = LaidOut("blur"), !.portal = LaidOut("portal")]
     IN Commit([w0 EXCEPT !.dirty = d])
  /\ op' = "layout"
  /\ prev' = view
  /\ UNCHANGED <<phase, shape, variant, view>>

\* The paint pass: it consumes the render invalidation.
Paint ==
  /\ phase = "live"
  /\ ~pending
  /\ fault = "none"
  /\ \A el \in Elements(shape) : dirty[el] <= RenderDirty
  /\ \E el \in Elements(shape) : dirty[el] = RenderDirty
  /\ Commit([World EXCEPT !.dirty.blur = Clean, !.dirty.portal = Clean])
  /\ op' = "paint"
  /\ prev' = view
  /\ UNCHANGED <<phase, shape, variant, view>>

\* The paths a message may be dispatched with: none, the path the leaf
\* registered, the id of any widget ever created, and the registered path
\* behind the id of a container.
MsgPaths ==
  {<<>>, route} \cup {<<i>> : i \in 1..(nextId - 1)}
    \cup {<<WidgetId(el)>> \o route : el \in Elements(shape)}

\* The driver routes a message down the tree.
Message(path) ==
  /\ phase = "live"
  /\ PassesDone
  /\ fault = "none"
  /\ Commit(RootMessage(shape, variant,
                        [World EXCEPT !.msg.sent = path, !.msg.path = path]))
  /\ op' = "message"
  /\ prev' = view
  /\ UNCHANGED <<phase, shape, variant, view>>

\* The driver rebuilds the root view against the view applied last.
Rebuild(v) ==
  /\ phase = "live"
  /\ PassesDone
  /\ fault = "none"
  /\ Commit(RootRebuild(v, view, shape, variant, World))
  /\ op' = "rebuild"
  /\ view' = v
  /\ prev' = view
  /\ UNCHANGED <<phase, shape, variant>>

\* A caller replaces the BackdropBlur widget's child with a new widget of kind k.
SetChild(k) ==
  /\ phase = "live"
  /\ fault = "none"
  /\ HasBlur(shape)
  /\ Cardinality(removed) < MaxReplace
  /\ LET w0 == Log(create_pod(World), "caller", "new_widget", nextId, 0)
     IN Commit(set_child(w0, [id |-> nextId, kind |-> k]))
  /\ op' = "set_child"
  /\ UNCHANGED <<phase, shape, variant, view, prev>>

\* The driver tears the root view down; nothing keeps it from doing so again.
Teardown ==
  /\ phase \in {"live", "torn"}
  /\ PassesDone
  /\ fault = "none"
  /\ Commit(RootTeardown(shape, variant, World))
  /\ phase' = IF phase = "live" THEN "torn" ELSE "torn_twice"
  /\ op' = "teardown"
  /\ UNCHANGED <<shape, variant, view, prev>>

\* A caller writes one property through the BackdropBlur widget's handle.
WriteBlurRadius(r) ==
  /\ phase = "live"
  /\ fault = "none"
  /\ HasBlur(shape)
  /\ Commit(set_blur_radius(World, r))
  /\ op' = "set_blur_radius"
  /\ UNCHANGED <<phase, shape, variant, view, prev>>

WriteTint(t) ==
  /\ phase = "live"
  /\ fault = "none"
  /\ HasBlur(shape)
  /\ Commit(set_tint(World, t))
  /\ op' = "set_tint"
  /\ UNCHANGED <<phase, shape, variant, view, prev>>

WriteClipContent(c) ==
  /\ phase = "live"
  /\ fault = "none"
  /\ HasBlur(shape)
  /\ Commit(set_clip_content(World, c))
  /\ op' = "set_clip_content"
  /\ UNCHANGED <<phase, shape, variant, view, prev>>

Next ==
  \/ \E v \in Views(shape, variant) : Build(v)
  \/ RegisterChildren
  \/ \E v \in Views(shape, variant) : Rebuild(v)
  \/ \E k \in Kinds : SetChild(k)
  \/ \E size \in Sizes : Layout(size)
  \/ Paint
  \/ \E path \in MsgPaths : Message(path)
  \/ Teardown

Spec == Init /\ [][Next]_vars

\* The widget used directly: built once from the views the run starts with (the
\* defaults), then written through its handle.
NextWrite ==
  \/ Build(view)
  \/ RegisterChildren
  \/ \E r \in Radii : WriteBlurRadius(r)
  \/ \E t \in Tints : WriteTint(t)
  \/ \E c \in BOOLEAN : WriteClipContent(c)
  \/ \E k \in Kinds : SetChild(k)
  \/ \E size \in Sizes : Layout(size)
  \/ Paint

SpecWrite == Init /\ [][NextWrite]_vars

\* ------------------------------------------------------------------ claims

\* The root view is built (and not torn down).
Built == phase \in {"built", "live"}

\* The root view is built and no traversal has faulted.
Live == Built /\ fault = "none"

\* The last traversal was a rebuild; it ran to its end.
Rebuilding == op = "rebuild"
Rebuilt == Rebuilding /\ fault = "none"

\* The widget configuration build produces for a BackdropBlur view.
BlurConfig(b) ==
  clip_content(tint(blur_radius(BackdropBlur_new(NoPod), b.blur_radius), b.tint),
               b.clip_content)

\* The widget configuration build produces for a Portal view.
PortalConfig(p) ==
  with_rtl(content_must_fill(constrain_vertical(constrain_horizontal(
    Portal_new(NoPod), p.constrain_horizontal), p.constrain_vertical),
    p.must_fill), p.right_to_left)

\* The setters of the two widgets.
BlurSetters == {"set_blur_radius", "set_tint", "set_clip_content"}
PortalSetters ==
  {"set_constrain_horizontal", "set_constrain_vertical", "set_content_must_fill"}

\* The setters called in l.
SettersIn(l) ==
  {l[i][2] : i \in 1..Len(l)} \cap (BlurSetters \cup PortalSetters)

\* C1: after build and any sequence of rebuilds, the BackdropBlur widget's
\* blur_radius, tint and clip_content are those build would give the view
\* applied last.
C1_BlurWidgetFollowsView ==
  (Built /\ HasBlur(shape)) =>
    /\ blur.blur_radius = BlurConfig(view.b).blur_radius
    /\ blur.tint = BlurConfig(view.b).tint
    /\ blur.clip_content = BlurConfig(view.b).clip_content

\* A rebuild changed all three properties and the widget holds the new ones.
C1_Witness ==
  /\ Rebuilt /\ shape = "blur"
  /\ view.b.blur_radius # prev.b.blur_radius
  /\ view.b.tint # prev.b.tint
  /\ view.b.clip_content # prev.b.clip_content
  /\ blur.blur_radius = view.b.blur_radius
  /\ blur.tint = view.b.tint
  /\ blur.clip_content = view.b.clip_content

\* C2: after build and any sequence of rebuilds, the Portal widget's
\* constrain_horizontal, constrain_vertical, content_must_fill and right-to-left
\* settings are those build would give the view applied last.
C2_PortalWidgetFollowsView ==
  (Live /\ HasPortal(shape)) =>
    /\ portal.constrain_horizontal = PortalConfig(view.p).constrain_horizontal
    /\ portal.constrain_vertical = PortalConfig(view.p).constrain_vertical
    /\ portal.must_fill = PortalConfig(view.p).must_fill
    /\ portal.rtl = PortalConfig(view.p).rtl

\* C3: a rebuild whose view has the property values of prev calls no setter and
\* emits no invalidation signal on the container.
C3_UnchangedRebuildIsSilent ==
  (Rebuilt /\ view = prev) =>
    /\ SettersIn(log) = {}
    /\ Signals(log, "blur") = <<>>
    /\ Signals(log, "portal") = <<>>

\* Exactly one property of the BackdropBlur view differs from prev.
OnlyRadiusDiffers ==
  /\ view.b.blur_radius # prev.b.blur_radius
  /\ view.b.tint = prev.b.tint
  /\ view.b.clip_content = prev.b.clip_content
OnlyTintDiffers ==
  /\ view.b.blur_radius = prev.b.blur_radius
  /\ view.b.tint # prev.b.tint
  /\ view.b.clip_content = prev.b.clip_content
OnlyClipDiffers ==
  /\ view.b.blur_radius = prev.b.blur_radius
  /\ view.b.tint = prev.b.tint
  /\ view.b.clip_content # prev.b.clip_content

\* C4: a rebuild in which only blur_radius or only tint differs emits one render
\* signal, no layout and no structural request; one in which only clip_content
\* differs emits one layout signal and no structural request.
C4_ChangeMapsToItsClass ==
  (Rebuilding /\ HasBlur(shape)) =>
    /\ (OnlyRadiusDiffers \/ OnlyTintDiffers) =>
         /\ Signals(log, "blur") = <<"render">>
         /\ Count(log, "blur", "request_layout") = 0
         /\ Count(log, "blur", "children_changed") = 0
    /\ OnlyClipDiffers =>
         /\ Signals(log, "blur") = <<"layout">>
         /\ Count(log, "blur", "request_layout") = 1
         /\ Count(log, "blur", "children_changed") = 0

\* A rebuild toggled clip_content alone and one layout signal came out.
C4_Witness ==
  /\ Rebuilt /\ HasBlur(shape) /\ OnlyClipDiffers
  /\ ~prev.b.clip_content /\ view.b.clip_content
  /\ Signals(log, "blur") = <<"layout">>

\* C5: a rebuild in which blur_radius and tint both change emits the render
\* signal once for the scope, not once per field.
C5_OneRenderSignalPerScope ==
  (/\ Rebuilding /\ HasBlur(shape)
   /\ view.b.blur_radius # prev.b.blur_radius
   /\ view.b.tint # prev.b.tint
   /\ view.b.clip_content = prev.b.clip_content) =>
    /\ Signals(log, "blur") = <<"render">>
    /\ Len(Signals(log, "blur")) = 1

\* A rebuild changed radius and tint, both setters requested a render, and one
\* render signal came out.
C5_Witness ==
  /\ Rebuilt /\ HasBlur(shape)
  /\ view.b.blur_radius # prev.b.blur_radius
  /\ view.b.tint # prev.b.tint
  /\ view.b.clip_content = prev.b.clip_content
  /\ Count(log, "blur", "request_render") = 2
  /\ Signals(log, "blur") = <<"render">>

\* The field a setter writes and the signal class that matches it.
FieldOf(setter) ==
  CASE setter = "set_blur_radius" -> "blur_radius"
    [] setter = "set_tint" -> "tint"
    [] OTHER -> "clip_content"
ClassOf(setter) == IF setter = "set_clip_content" THEN "layout" ELSE "render"

\* The fields in which two BackdropBlur widgets differ.
FieldsChanged(b1, b2) ==
  {f \in {"id", "child", "blur_radius", "tint", "clip_content"} : b1[f] # b2[f]}

\* C6: a write through set_blur_radius, set_tint or set_clip_content either
\* leaves the whole widget as it was and emits no signal, or changes that one
\* field alone and emits the one matching signal; so writing the value the
\* widget already holds (the same value a second time) emits nothing.
C6_WriteIsNoOpOrOneChange ==
  [][op' \in BlurSetters =>
       \/ /\ blur' = blur
          /\ Signals(log', "blur") = <<>>
       \/ /\ FieldsChanged(blur, blur') = {FieldOf(op')}
          /\ Signals(log', "blur") = <<ClassOf(op')>>]_vars

\* Where call `what` of element el stands in l (0: not made).
Pos(l, el, what) ==
  IF \E i \in 1..Len(l) : l[i][1] = el /\ l[i][2] = what
  THEN CHOOSE i \in 1..Len(l) :
         /\ l[i][1] = el /\ l[i][2] = what
         /\ \A j \in 1..(i - 1) : ~(l[j][1] = el /\ l[j][2] = what)
  ELSE 0

\* C7 (as claimed): the element has one child, children_ids() is the identifier
\* of the attached child, that child is the element the view's child built, and
\* no removed identifier is in children_ids().
C7_ChildIsViewChild ==
  (Live /\ HasBlur(shape)) =>
    /\ children_ids(blur) = <<leaf.id>>
    /\ children_ids(blur)[1] \notin removed

\* C7 (amended): the element has one child whose identifier children_ids()
\* returns, registered once the pending registration has run and never a removed
\* one; it is the element the view's child built until set_child is called, and
\* the widget handed to the last set_child after that.
C7_OneChildNeverRemoved ==
  Live =>
    /\ HasBlur(shape) =>
         /\ Len(children_ids(blur)) = 1
         /\ children_ids(blur)[1] # 0
         /\ children_ids(blur)[1] \notin removed
         /\ ~pending => children_ids(blur)[1] \in arena
         /\ arena \cap removed = {}
         /\ removed = {} => blur.child = leaf
         /\ removed # {} => (blur.child.id = nextId - 1 /\ leaf.id \in removed)
    /\ HasPortal(shape) =>
         /\ portal.child = ChildPod(shape, World)
         /\ portal.child.id \notin removed
         /\ ~pending => portal.child.id \in arena

\* set_child replaced the child twice: the child is the second new widget and
\* both earlier ones are gone from the arena.
C7_Witness ==
  /\ Live /\ HasBlur(shape) /\ ~pending
  /\ Cardinality(removed) = 2
  /\ blur.child.id \in arena
  /\ blur.child.id # leaf.id

\* C8: set_child calls remove_child once, on the old child, which leaves the
\* registry; the new child is the only child; blur_radius, tint and
\* clip_content are untouched; one children_changed and one structural signal.
C8_SetChildReplacesChild ==
  [][op' = "set_child" =>
       /\ Count(log', "blur", "remove_child") = 1
       /\ log'[Pos(log', "blur", "remove_child")][3] = blur.child.id
       /\ blur.child.id \notin arena'
       /\ removed' = removed \cup {blur.child.id}
       /\ children_ids(blur') = <<nextId>>
       /\ nextId # blur.child.id
       /\ FieldsChanged(blur, blur') = {"child"}
       /\ Count(log', "blur", "children_changed") = 1
       /\ Signals(log', "blur") = <<"structure">>]_vars

\* A set_child on a widget with non-default properties removed the view's child.
C8_Witness ==
  /\ op = "set_child"
  /\ blur.blur_radius = Num(24) /\ blur.tint = OtherTint /\ ~blur.clip_content
  /\ removed = {leaf.id}
  /\ blur.child.kind = "button"
  /\ Signals(log, "blur") = <<"structure">>

\* C9 (as claimed): the old child is detached first, then children_changed is
\* raised, and only then is the new child constructed and attached.
C9_DetachSignalAttach ==
  op = "set_child" =>
    /\ Pos(log, "blur", "remove_child") < Pos(log, "blur", "children_changed")
    /\ Pos(log, "blur", "children_changed") < Pos(log, "blur", "replace")
    /\ Pos(log, "blur", "remove_child") < Pos(log, "caller", "new_widget")

\* C9 (amended): set_child is handed the already constructed new child and puts
\* it in the child slot first, then detaches the old child from the registry,
\* then raises children_changed once; the new child is registered only by the
\* registration pass that follows.
C9_SwapDetachSignal ==
  op = "set_child" =>
    /\ Len(log) = 5
    /\ log[1] = <<"caller", "new_widget", blur.child.id, 0>>
    /\ log[2] = <<"blur", "set_child", blur.child.id, 0>>
    /\ log[3] = <<"blur", "replace", blur.child.id, 0>>
    /\ log[4][1] = "blur" /\ log[4][2] = "remove_child"
    /\ log[4][3] \in removed /\ log[4][3] # blur.child.id
    /\ log[5] = <<"blur", "children_changed", 0, StructureDirty>>
    /\ pending
    /\ blur.child.id \notin arena

\* A set_child on a registered tree: the new child is in the slot, unregistered.
C9_Witness ==
  /\ op = "set_child"
  /\ Pos(log, "blur", "replace") = 3
  /\ Pos(log, "blur", "remove_child") = 4
  /\ leaf.id \in removed
  /\ blur.child.id \notin arena

\* The child pod of the innermost container.
InnermostChild == IF HasBlur(shape) THEN blur.child ELSE portal.child

\* C10: teardown of a container tears its child down once, with the child's own
\* element and view state, and completes only after every descendant has: in
\* portal(backdrop_blur(leaf)) the order of completion is leaf, blur, portal.
C10_PostOrderTeardown ==
  /\ op = "teardown" =>
       /\ Count(log, "leaf", "teardown") <= 1
       /\ \A i \in 1..Len(Containers(shape)) :
            LET el == Containers(shape)[i]
            IN /\ Count(log, el, "torn") <= 1
               /\ Pos(log, el, "torn") # 0 =>
                    /\ Pos(log, "leaf", "teardown") # 0
                    /\ Pos(log, "leaf", "teardown") < Pos(log, el, "torn")
  /\ (op = "teardown" /\ fault = "none") =>
    /\ Count(log, "leaf", "teardown") = 1
    /\ log[Pos(log, "leaf", "teardown")] =
         <<"leaf", "teardown", InnermostChild.id, view_state>>
    /\ \A i \in 1..Len(Containers(shape)) :
         LET el == Containers(shape)[i]
         IN /\ Count(log, el, "teardown") = 1
            /\ Count(log, el, "torn") = 1
            /\ log[Pos(log, el, "teardown")][3] = WidgetId(el)
            /\ log[Pos(log, el, "teardown")][4] = view_state
            /\ Pos(log, el, "teardown") < Pos(log, "leaf", "teardown")
            /\ Pos(log, "leaf", "teardown") < Pos(log, el, "torn")
    /\ shape = "nested" =>
         /\ Pos(log, "portal", "teardown") < Pos(log, "blur", "teardown")
         /\ Pos(log, "blur", "torn") < Pos(log, "portal", "torn")
         /\ Pos(log, "portal", "torn") = Len(log)

\* The three-level tree was torn down: leaf, then blur, then portal.
C10_Witness ==
  /\ op = "teardown" /\ fault = "none" /\ shape = "nested"
  /\ Pos(log, "leaf", "teardown") = 3
  /\ Pos(log, "blur", "torn") = 4
  /\ Pos(log, "portal", "torn") = 5

\* The passes that consume invalidation; every other step only requests it.
PassOps == {"register_children", "layout", "paint"}

\* The call at position i of l is a request of element el.
IsRequest(l, el, i) == l[i][1] = el /\ Level(l[i][2]) > 0

\* C11: in a step that is no consuming pass the invalidation state of an element
\* only moves forward along clean, render-dirty, layout-dirty, structure-dirty,
\* whatever setters run and in whatever order: every request leaves the element
\* at least at the class requested and never below the state it found or the
\* state an earlier request of the step left, and the step ends in the state the
\* last request left.
C11_InvalidationOnlyEscalates ==
  [][op' \notin PassOps =>
       \A el \in Elements(shape) :
         /\ dirty'[el] >= dirty[el]
         /\ \A i \in 1..Len(log') :
              IsRequest(log', el, i) =>
                /\ log'[i][4] >= Level(log'[i][2])
                /\ log'[i][4] >= dirty[el]
                /\ log'[i][4] <= dirty'[el]
                /\ \A j \in 1..(i - 1) :
                     IsRequest(log', el, j) => log'[j][4] <= log'[i][4]]_vars

\* A render request on a layout-dirty BackdropBlur widget left it layout-dirty.
C11_Witness ==
  /\ op = "set_tint"
  /\ Len(log) = 2
  /\ log[2] = <<"blur", "request_render", 0, LayoutDirty>>
  /\ dirty.blur = LayoutDirty

\* The child element of a container, and the pod the container holds for it.
ChildOf(el) == IF el = "portal" /\ shape = "nested" THEN "blur" ELSE "leaf"
ChildPodOf(el) == IF el = "blur" THEN blur.child ELSE portal.child

\* C12: in a rebuild every container applies its own property deltas before it
\* enters its child's rebuild, and enters it once, whether or not a property
\* changed, with the element its child handle gives and with prev.child as the
\* previous view (the inner BackdropBlur's radius setter runs exactly when its
\* radius differs from prev.child's).  The one rebuild that does not reach the
\* child is the one the downcast of the child handle ends.
C12_PropertiesThenChildOnce ==
  Rebuilding =>
    /\ \A el \in Elements(shape) :
         LET c == ChildOf(el)
             n == Pos(log, c, "rebuild")
         IN /\ Count(log, c, "rebuild") <= 1
            /\ (fault = "none" \/ el # "blur") => n > 0
            /\ n = 0 => fault = "downcast"
            /\ n > 0 =>
                 /\ log[n][3] = ChildPodOf(el).id
                 /\ log[n][4] = view_state
                 /\ \A i \in 1..Len(log) :
                      (log[i][1] = el /\ log[i][2] # "rebuilt") => i < n
    /\ shape = "nested" =>
         (Count(log, "blur", "set_blur_radius") = 1
            <=> f64_ne(view.b.blur_radius, prev.b.blur_radius))

\* A rebuild of portal(backdrop_blur(leaf)) in which both containers had a
\* property to apply and the leaf was rebuilt.
C12_Witness ==
  /\ Rebuilt
  /\ shape = "nested"
  /\ Count(log, "portal", "set_content_must_fill") = 1
  /\ Count(log, "blur", "set_blur_radius") = 1
  /\ Count(log, "blur", "request_render") = 1
  /\ Count(log, "leaf", "rebuild") = 1

\* The last traversal routed a message.
Messaging == op = "message"

\* What the leaf rule answers to the path dispatched, handed on unchanged.
Answer == LeafAnswer(msg.sent, InnermostChild.id)

\* C13 (as claimed): at the root container, a path whose head is not the
\* container's own identifier is answered Stale without the child's message being
\* invoked; otherwise the head is stripped and the child is invoked with the rest.
C13_ContainerChecksHead ==
  (Messaging /\ fault = "none") =>
    LET el == Containers(shape)[1]
        c == ChildOf(el)
    IN IF msg.sent = <<>> \/ Head(msg.sent) # WidgetId(el)
       THEN msg.result = "Stale" /\ Count(log, c, "message") = 0
       ELSE Count(log, c, "message") = 1 /\ msg.seen = Tail(msg.sent)

\* C13 (amended): a BackdropBlur or Portal container compares no identifier and
\* strips nothing: whatever the head of the path, it enters its child's message
\* once with the path unchanged.  Stale is decided by the leaf alone: the message
\* is Stale exactly when the path is not empty and is not the leaf element's
\* identifier alone.
C13_ContainersPassThrough ==
  Messaging =>
    /\ \A el \in Elements(shape) :
         /\ Count(log, el, "message") = 1
         /\ (fault = "none" \/ el # "blur") => Count(log, ChildOf(el), "message") = 1
    /\ fault = "none" =>
         /\ msg.seen = msg.sent
         /\ msg.path = msg.sent
         /\ msg.result = "Stale"
              <=> (msg.sent # <<>> /\ msg.sent # <<InnermostChild.id>>)

\* A message whose head is not the root container's identifier reached the leaf
\* and was handled there.
C13_Witness ==
  /\ Messaging
  /\ msg.sent # <<>>
  /\ Head(msg.sent) # WidgetId(Containers(shape)[1])
  /\ Count(log, "leaf", "message") = 1
  /\ msg.result = "Handled"

\* C14: a message whose path addresses a child removed earlier is answered
\* Stale: routing it never faults and never runs the application's callback.
C14_RemovedChildIsStale ==
  (Messaging /\ msg.sent # <<>> /\ Head(msg.sent) \in removed) =>
    /\ fault = "none"
    /\ msg.result = "Stale"
    /\ ~msg.mutated

\* The steps of the View protocol, which are handed the view state.
StepCalls == {"build", "rebuild", "teardown", "message"}

\* C15: the view state at the container's position is the child's: it is what the
\* child's build returned (the token of the element it built), every build,
\* rebuild, teardown and message step of a container and of the leaf is handed
\* that same state, and no container step leaves another state behind.
C15_ViewStateIsChilds ==
  phase # "init" =>
    /\ view_state = leaf.id
    /\ \A i \in 1..Len(log) :
         (log[i][1] \in {"portal", "blur", "leaf"} /\ log[i][2] \in StepCalls)
           => log[i][4] = view_state

\* A message through portal(backdrop_blur(leaf)): all three levels were handed
\* the state the leaf's build returned.
C15_Witness ==
  /\ Messaging /\ shape = "nested" /\ fault = "none"
  /\ Len(log) = 5
  /\ log[1] = <<"portal", "message", portal.id, leaf.id>>
  /\ log[2] = <<"blur", "message", blur.id, leaf.id>>
  /\ log[3][1] = "leaf" /\ log[3][4] = leaf.id
  /\ view_state = leaf.id

\* C16: build invokes the child's build once, creates one new element for each
\* container, which owns the element its child built and has the properties the
\* view's builders give, calls no setter and requests no invalidation.
C16_BuildOnceNoSignal ==
  op = "build" =>
    /\ Count(log, "leaf", "build") = 1
    /\ Len(log) = 1 + Len(Containers(shape))
    /\ nextId = 2 + Len(Containers(shape))
    /\ \A el \in Elements(shape) :
         /\ Count(log, el, "build") = 1
         /\ Signals(log, el) = <<>>
         /\ dirty[el] = Clean
         /\ WidgetId(el) \in 1..(nextId - 1)
         /\ WidgetId(el) # leaf.id
    /\ \A i \in 1..Len(log) : log[i][2] = "build"
    /\ SettersIn(log) = {}
    /\ HasBlur(shape) =>
         /\ blur.child = leaf
         /\ [blur EXCEPT !.id = 0, !.child = NoPod] = BlurConfig(view.b)
    /\ HasPortal(shape) =>
         /\ portal.child = (IF shape = "nested"
                            THEN [id |-> blur.id, kind |-> "blur"] ELSE leaf)
         /\ portal.id # blur.id
         /\ [portal EXCEPT !.id = 0, !.child = NoPod] = PortalConfig(view.p)

\* A build of portal(backdrop_blur(leaf)) from views that are not the defaults.
C16_Witness ==
  /\ op = "build" /\ shape = "nested"
  /\ view.b.blur_radius # DefaultBlurRadius
  /\ view.p.must_fill /\ view.p.right_to_left
  /\ blur.blur_radius = view.b.blur_radius
  /\ portal.must_fill /\ portal.rtl
  /\ portal.child.id = blur.id /\ blur.child = leaf

\* C17: a second teardown of the same element ends at once as a fault and does
\* not invoke the child's teardown again.
C17_SecondTeardownFaults ==
  phase = "torn_twice" =>
    /\ fault # "none"
    /\ Count(log, "leaf", "teardown") = 0

\* C18: every layout pass lays the child out with the container's size, places
\* it at the origin and forwards its baseline offset; and whenever no layout of
\* the BackdropBlur widget is pending, its clip path is its bounds if clip_content
\* is set and absent otherwise, whatever set_clip_content calls came before.
C18_ClipFollowsClipContent ==
  HasBlur(shape) =>
    /\ op = "layout" =>
         /\ laid.size \in Sizes
         /\ laid.child_size = laid.size
         /\ laid.child_origin = <<0, 0>>
         /\ laid.baseline_offset = child_baseline_offset(blur.child)
    /\ (phase = "live" /\ ~pending /\ dirty.blur <= RenderDirty) =>
         laid.clip_path =
           IF blur.clip_content THEN to_rect(laid.size) ELSE <<"none">>

\* clip_content was switched off and the layout pass that followed cleared the
\* clip path.
C18_Witness ==
  /\ op = "layout"
  /\ ~blur.clip_content
  /\ laid.clip_path = <<"none">>
  /\ laid.size = <<200, 80>>
  /\ dirty.blur = RenderDirty

\* C19: the kind of the BackdropBlur widget's child changes in build and
\* set_child only; build gives it the view's child kind and, as long as no
\* set_child was made, it keeps that kind and no traversal faults; a rebuild,
\* teardown or message faults (on the downcast) exactly when the child it finds
\* is of another kind.
C19_ChildKindInvariant ==
  [][HasBlur(shape) =>
       /\ blur'.child.kind # blur.child.kind => op' \in {"build", "set_child"}
       /\ op' = "build" => blur'.child.kind = ViewKind
       /\ (phase' # "init" /\ removed' = {}) =>
            (blur'.child.kind = ViewKind /\ fault' = "none")
       /\ op' \in {"rebuild", "teardown", "message"} =>
            /\ fault' \in {"none", "downcast"}
            /\ fault' = "downcast" <=> blur.child.kind # ViewKind]_vars

\* A message found a child of another kind and faulted on the downcast.
C19_Witness ==
  /\ Messaging
  /\ HasBlur(shape)
  /\ blur.child.kind = "button"
  /\ fault = "downcast"
  /\ Count(log, "leaf", "message") = 0

\* C20: the containers push no path segment in build (the path registered for
\* the leaf is its own identifier alone, at any depth) and consume none in
\* message: the leaf's message is invoked once, sees the path as dispatched, and
\* its result, action and effect on the application are handed back unmodified.
C20_PathSymmetry ==
  /\ phase # "init" => route = <<leaf.id>>
  /\ (Messaging /\ fault = "none") =>
       /\ Count(log, "leaf", "message") = 1
       /\ msg.seen = msg.sent
       /\ msg.result = Answer.result
       /\ msg.action = Answer.action
       /\ msg.mutated = Answer.mutated

\* The path registered at build, dispatched through portal(backdrop_blur(leaf)),
\* reached the leaf as registered and was handled.
C20_Witness ==
  /\ Messaging /\ shape = "nested"
  /\ msg.sent = route
  /\ msg.seen = route
  /\ msg.result = "Handled"
  /\ msg.action = leaf.id

====
